---- MODULE Spec2Model ----
(***************************************************************************)
(* BACnetIOHandler (src/bacnet/rootfs/usr/bin/BACnetIOHandler.py) as a     *)
(* state machine: the subscriber-id allocator, the device registry, the    *)
(* requests in flight and the completion handlers that drive discovery.    *)
(***************************************************************************)
EXTENDS Integers, Sequences, FiniteSets, Bags, TLC

VARIABLES
    BACnetDeviceDict,   \* the registry, in insertion order (a Python dict)
    id_to_object,       \* subscriber id -> (object, device)
    object_to_id,       \* (object, device) -> subscriber id
    available_ids,      \* the reclaim pool (a Python set)
    next_id,            \* the next never-issued id
    updateEvent,        \* the change signal (threading.Event)
    pending,            \* bag of requests submitted with request_io, not yet completed
    last,               \* the operation that ran last, its input and what it issued
    freed,              \* the id last returned to the pool (by an on_Subscribed error or an
                        \* unassign_id call), and the id the next assign_id for a key
                        \* without an id returned after it
    apiReads,           \* ReadPropertyMultiple calls made so far by the web API
    merging,            \* the update_object call that last set the change signal, and
                        \* whether it has yet to write the registry
    observer            \* the web API thread that waits on the change signal: its
                        \* position and the registry as it last read it

vars == <<BACnetDeviceDict, id_to_object, object_to_id, available_ids, next_id,
          updateEvent, pending, last, freed, apiReads, merging, observer>>

----------------------------------------------------------------------------
(* Bounds of the model *)

\* subscribe requests in flight beyond which the web API makes no further subscribe call
MaxPending == 2

\* ReadPropertyMultiple calls the web API makes
MaxApiReads == 1

----------------------------------------------------------------------------
(* Identifiers, addresses and property lists *)

\* Python's None, in the shape of an object identifier
None == <<"None", 0>>

\* an empty Python dict
EmptyDict == [x \in {} |-> 0]

D1 == <<"device", 1>>
D2 == <<"device", 2>>
O1 == <<"analogInput", 1>>
O2 == <<"binaryValue", 2>>
O3 == <<"schedule", 3>>

Devices == {D1, D2}
Objects == {O1, O2, O3}
Addresses == {"A1", "A2"}
Values == {1}

objectFilter ==
    {"accumulator", "analogInput", "analogOutput", "analogValue", "averaging",
     "binaryInput", "binaryOutput", "binaryValue", "multiStateInput",
     "multiStateOutput", "multiStateValue", "largeAnalogValue", "integerValue",
     "positiveIntegerValue", "lightingOutput"}

\* the property list of do_IAmRequest and of the single-device retry
DevicePropertyList ==
    <<"objectIdentifier", "objectType", "objectName", "systemStatus", "vendorName",
      "vendorIdentifier", "objectList", "description", "modelName">>

\* the property list of the retry of any other request
ReducedPropertyList ==
    <<"objectIdentifier", "objectName", "description", "presentValue", "statusFlags",
      "outOfService", "units", "reliability">>

\* the property list of the follow-up read of a device's objects
AllPropertyList == <<"all">>

\* the object list each peer device reports: itself, then its objects
PeerObjectList(dev) == IF dev = D1 THEN <<D1, O1, O2, O3>> ELSE <<dev, O3>>

----------------------------------------------------------------------------
(* Requests (IOCBs) *)

\* retry tells whether the error handler issued the request
RPMRequest(objectList, propertyList, address, retry) ==
    [service |-> "ReadPropertyMultipleRequest",
     objectList |-> objectList,
     propertyList |-> propertyList,
     pduDestination |-> address,
     subscriberProcessIdentifier |-> 0,
     monitoredObjectIdentifier |-> None,
     issueConfirmedNotifications |-> "None",
     lifetime |-> 0,
     retry |-> retry]

\* lifetime 0 stands for None
SubscribeCOVRequest(id, objectID, confirmed, lifetime, address) ==
    [service |-> "SubscribeCOVRequest",
     objectList |-> <<>>,
     propertyList |-> <<>>,
     pduDestination |-> address,
     subscriberProcessIdentifier |-> id,
     monitoredObjectIdentifier |-> objectID,
     issueConfirmedNotifications |-> confirmed,
     lifetime |-> lifetime,
     retry |-> FALSE]

NoRequest == RPMRequest(<<>>, <<>>, "", FALSE)

\* what request_io queues for completion: a response PDU sent with
\* self.response is not one
IsRequest(pdu) == pdu.service # "SimpleAckPDU"

RECURSIVE SeqToBag(_)
SeqToBag(s) ==
    IF s = <<>> THEN EmptyBag ELSE SetToBag({Head(s)}) (+) SeqToBag(Tail(s))

----------------------------------------------------------------------------
(* The state a handler works on: registry, signal, allocator, and what the  *)
(* handler has issued and done so far                                       *)

Alloc ==
    [id_to_object |-> id_to_object,
     object_to_id |-> object_to_id,
     available_ids |-> available_ids,
     next_id |-> next_id]

Ctx ==
    [reg |-> BACnetDeviceDict,
     ev |-> updateEvent,
     al |-> Alloc,
     sent |-> <<>>,
     calls |-> <<>>,
     raised |-> FALSE]

\* an exception leaves the handler: what was done so far stays done
Raise(c) == [c EXCEPT !.raised = TRUE]

----------------------------------------------------------------------------
(* Helper functions of the handler *)

HasDevice(reg, deviceID) == \E i \in 1..Len(reg) : reg[i].key = deviceID

DeviceIndex(reg, deviceID) == CHOOSE i \in 1..Len(reg) : reg[i].key = deviceID

DeviceEntry(reg, deviceID) == reg[DeviceIndex(reg, deviceID)]

\* update_object with "self.updateEvent.set()" left out
update_object_no_signal(c, objectID, deviceID, new_val) ==
    IF HasDevice(c.reg, deviceID)
    THEN LET i == DeviceIndex(c.reg, deviceID)
             objs == c.reg[i].objects
             merged == IF objectID \in DOMAIN objs
                       THEN [objs EXCEPT ![objectID] = new_val @@ objs[objectID]]
                       ELSE (objectID :> new_val) @@ objs
         IN [c EXCEPT !.reg[i].objects = merged]
    ELSE c

\* update_object replacing the object's property map instead of updating it
update_object_replace(c, objectID, deviceID, new_val) ==
    IF HasDevice(c.reg, deviceID)
    THEN LET i == DeviceIndex(c.reg, deviceID)
             objs == c.reg[i].objects
         IN [c EXCEPT !.ev = TRUE,
                      !.reg[i].objects = (objectID :> new_val) @@ objs]
    ELSE c

\* update_object that makes an entry for a device the registry does not hold
update_object_creates_device(c, objectID, deviceID, new_val) ==
    IF HasDevice(c.reg, deviceID)
    THEN LET i == DeviceIndex(c.reg, deviceID)
             objs == c.reg[i].objects
             merged == IF objectID \in DOMAIN objs
                       THEN [objs EXCEPT ![objectID] = new_val @@ objs[objectID]]
                       ELSE (objectID :> new_val) @@ objs
         IN [c EXCEPT !.ev = TRUE, !.reg[i].objects = merged]
    ELSE [c EXCEPT !.ev = TRUE,
                   !.reg = Append(@, [key |-> deviceID,
                                      address |-> "",
                                      deviceIdentifier |-> deviceID,
                                      objects |-> (objectID :> new_val)])]

update_object(c, objectID, deviceID, new_val) ==
    IF HasDevice(c.reg, deviceID)
    THEN LET i == DeviceIndex(c.reg, deviceID)
             objs == c.reg[i].objects
             merged == IF objectID \in DOMAIN objs
                       THEN [objs EXCEPT ![objectID] = new_val @@ objs[objectID]]
                       ELSE (objectID :> new_val) @@ objs
         IN [c EXCEPT !.ev = TRUE, !.reg[i].objects = merged]
    ELSE c

addr_to_dev_id(reg, address) ==
    IF \E i \in 1..Len(reg) : reg[i].address = address
    THEN LET first == CHOOSE i \in 1..Len(reg) :
                          /\ reg[i].address = address
                          /\ \A j \in 1..(i - 1) : reg[j].address # address
         IN reg[first].key
    ELSE None

dev_id_to_addr(reg, deviceID) ==
    IF HasDevice(reg, deviceID) THEN DeviceEntry(reg, deviceID).address ELSE ""

\* assign_id with "self.next_id += 1" left out
assign_id_stale_counter(al, obj) ==
    IF obj \in DOMAIN al.object_to_id
    THEN {[al |-> al, id |-> al.object_to_id[obj]]}
    ELSE LET new_id == IF al.available_ids # {}
                       THEN CHOOSE n \in al.available_ids : TRUE
                       ELSE al.next_id
         IN {[al |-> [id_to_object |-> (new_id :> obj) @@ al.id_to_object,
                      object_to_id |-> (obj :> new_id) @@ al.object_to_id,
                      available_ids |-> al.available_ids \ {new_id},
                      next_id |-> al.next_id],
              id |-> new_id]}

\* assign_id that never takes an id from the reclaim pool
assign_id_ignores_pool(al, obj) ==
    IF obj \in DOMAIN al.object_to_id
    THEN {[al |-> al, id |-> al.object_to_id[obj]]}
    ELSE {[al |-> [id_to_object |-> (al.next_id :> obj) @@ al.id_to_object,
                   object_to_id |-> (obj :> al.next_id) @@ al.object_to_id,
                   available_ids |-> al.available_ids,
                   next_id |-> al.next_id + 1],
           id |-> al.next_id]}

\* assign_id without the "obj in self.object_to_id" test
assign_id_always_new(al, obj) ==
    LET picks == IF al.available_ids # {}
                 THEN {[id |-> n,
                        available_ids |-> al.available_ids \ {n},
                        next_id |-> al.next_id] : n \in al.available_ids}
                 ELSE {[id |-> al.next_id,
                        available_ids |-> al.available_ids,
                        next_id |-> al.next_id + 1]}
    IN {[al |-> [id_to_object |-> (p.id :> obj) @@ al.id_to_object,
                 object_to_id |-> (obj :> p.id) @@ al.object_to_id,
                 available_ids |-> p.available_ids,
                 next_id |-> p.next_id],
         id |-> p.id] : p \in picks}

\* the outcomes of assign_id: the allocator after the call and the id returned;
\* set.pop() takes an arbitrary element of the reclaim pool
assign_id(al, obj) ==
    IF obj \in DOMAIN al.object_to_id
    THEN {[al |-> al, id |-> al.object_to_id[obj]]}
    ELSE LET picks == IF al.available_ids # {}
                      THEN {[id |-> n,
                             available_ids |-> al.available_ids \ {n},
                             next_id |-> al.next_id] : n \in al.available_ids}
                      ELSE {[id |-> al.next_id,
                             available_ids |-> al.available_ids,
                             next_id |-> al.next_id + 1]}
         IN {[al |-> [id_to_object |-> (p.id :> obj) @@ al.id_to_object,
                      object_to_id |-> (obj :> p.id) @@ al.object_to_id,
                      available_ids |-> p.available_ids,
                      next_id |-> p.next_id],
              id |-> p.id] : p \in picks}

\* unassign_id with "self.available_ids.add(obj_id)" left out
unassign_id_no_reclaim(al, obj) ==
    IF obj \in DOMAIN al.object_to_id
    THEN [id_to_object |-> [n \in DOMAIN al.id_to_object \ {al.object_to_id[obj]}
                               |-> al.id_to_object[n]],
          object_to_id |-> [k \in DOMAIN al.object_to_id \ {obj} |-> al.object_to_id[k]],
          available_ids |-> al.available_ids,
          next_id |-> al.next_id]
    ELSE al

\* unassign_id with "del self.id_to_object[obj_id]" left out
unassign_id_keeps_reverse(al, obj) ==
    IF obj \notin DOMAIN al.object_to_id
    THEN al
    ELSE LET obj_id == al.object_to_id[obj]
         IN [id_to_object |-> al.id_to_object,
             object_to_id |-> [k \in DOMAIN al.object_to_id \ {obj} |-> al.object_to_id[k]],
             available_ids |-> al.available_ids \cup {obj_id},
             next_id |-> al.next_id]

unassign_id(al, obj) ==
    IF obj \notin DOMAIN al.object_to_id
    THEN al
    ELSE LET obj_id == al.object_to_id[obj]
         IN [id_to_object |-> [n \in DOMAIN al.id_to_object \ {obj_id} |-> al.id_to_object[n]],
             object_to_id |-> [k \in DOMAIN al.object_to_id \ {obj} |-> al.object_to_id[k]],
             available_ids |-> al.available_ids \cup {obj_id},
             next_id |-> al.next_id]

\* one assign_id call made by a handler, recorded in call order
Assigned(c, key, out) ==
    [c EXCEPT !.al = out.al,
              !.calls = Append(@, [key |-> key, id |-> out.id,
                                   fresh |-> key \notin DOMAIN c.al.object_to_id])]

----------------------------------------------------------------------------
(* Request functions *)

ReadPropertyMultiple(c, objectList, propertyList, address, retry) ==
    [c EXCEPT !.sent = Append(@, RPMRequest(objectList, propertyList, address, retry))]

COVSubscribe(c, objectID, confirmationType, address) ==
    LET key == <<objectID, addr_to_dev_id(c.reg, address)>>
    IN {[Assigned(c, key, out) EXCEPT
            !.sent = Append(@, SubscribeCOVRequest(
                                   out.id, objectID,
                                   IF confirmationType = TRUE THEN "true" ELSE "None",
                                   0, address))]
        : out \in assign_id(c.al, key)}

\* self.unsubscribe_id does not exist: the AttributeError it raises, after
\* assign_id has run, is swallowed by the except clause and nothing is sent
COVUnsubscribe(c, objectID, confirmationType, address) ==
    LET key == <<objectID, addr_to_dev_id(c.reg, address)>>
    IN {Assigned(c, key, out) : out \in assign_id(c.al, key)}

----------------------------------------------------------------------------
(* Peers: what a completion carries *)

\* an Error, Reject or Abort PDU; the stack sets its source to the peer the
\* request went to
ErrorPDU(request) == [pduSource |-> request.pduDestination]

Requested(request, propertyIdentifier) ==
    \E i \in 1..Len(request.propertyList) :
        request.propertyList[i] \in {propertyIdentifier, "all"}

\* a ReadPropertyMultipleACK: one result per object asked for, in order; a
\* device reports its objectList (or an access error for it), any other object
\* its presentValue
PeerResponse(request, value, listOk) ==
    [pduSource |-> request.pduDestination,
     listOfReadAccessResults |->
        [i \in 1..Len(request.objectList) |->
            LET oid == request.objectList[i]
            IN [objectIdentifier |-> oid,
                listOfResults |->
                    IF oid[1] = "device"
                    THEN IF Requested(request, "objectList")
                         THEN <<[propertyIdentifier |-> "objectList",
                                 propertyAccessError |-> ~listOk,
                                 propertyValue |-> PeerObjectList(oid)]>>
                         ELSE <<>>
                    ELSE IF Requested(request, "presentValue")
                         THEN <<[propertyIdentifier |-> "presentValue",
                                 propertyAccessError |-> FALSE,
                                 propertyValue |-> value]>>
                         ELSE <<>>]]]

NoResponse == [pduSource |-> "", listOfReadAccessResults |-> <<>>]

\* bacpypes' get_datatype: "None" for a property the object type does not define
get_datatype(objectType, propertyIdentifier) ==
    IF \/ \E i \in 1..Len(DevicePropertyList) : DevicePropertyList[i] = propertyIdentifier
       \/ \E i \in 1..Len(ReducedPropertyList) : ReducedPropertyList[i] = propertyIdentifier
    THEN "datatype"
    ELSE "None"

----------------------------------------------------------------------------
(* Response functions *)

\* do_IAmRequest asking for the reduced property list
do_IAmRequest_reduced_list(c, pduSource, iAmDeviceIdentifier) ==
    IF ~HasDevice(c.reg, iAmDeviceIdentifier)
    THEN ReadPropertyMultiple(
             [c EXCEPT !.reg = Append(@, [key |-> iAmDeviceIdentifier,
                                          address |-> pduSource,
                                          deviceIdentifier |-> iAmDeviceIdentifier,
                                          objects |-> EmptyDict])],
             <<iAmDeviceIdentifier>>, ReducedPropertyList, pduSource, FALSE)
    ELSE c

\* do_IAmRequest without the "not in self.BACnetDeviceDict" test: the update
\* replaces the entry of a known device
do_IAmRequest_overwrite(c, pduSource, iAmDeviceIdentifier) ==
    LET entry == [key |-> iAmDeviceIdentifier,
                  address |-> pduSource,
                  deviceIdentifier |-> iAmDeviceIdentifier,
                  objects |-> EmptyDict]
        reg == IF HasDevice(c.reg, iAmDeviceIdentifier)
               THEN [c.reg EXCEPT ![DeviceIndex(c.reg, iAmDeviceIdentifier)] = entry]
               ELSE Append(c.reg, entry)
    IN ReadPropertyMultiple([c EXCEPT !.reg = reg], <<iAmDeviceIdentifier>>,
                            DevicePropertyList, pduSource, FALSE)

do_IAmRequest(c, pduSource, iAmDeviceIdentifier) ==
    IF ~HasDevice(c.reg, iAmDeviceIdentifier)
    THEN ReadPropertyMultiple(
             [c EXCEPT !.reg = Append(@, [key |-> iAmDeviceIdentifier,
                                          address |-> pduSource,
                                          deviceIdentifier |-> iAmDeviceIdentifier,
                                          objects |-> EmptyDict])],
             <<iAmDeviceIdentifier>>, DevicePropertyList, pduSource, FALSE)
    ELSE c

\* the property dict of one result: unknown datatypes and access errors are left out
RECURSIVE propertydict(_, _)
propertydict(object_id, listOfResults) ==
    IF listOfResults = <<>>
    THEN EmptyDict
    ELSE LET properties == Head(listOfResults)
             rest == propertydict(object_id, Tail(listOfResults))
         IN IF get_datatype(object_id[1], properties.propertyIdentifier) = "None"
            THEN rest
            ELSE IF properties.propertyAccessError
                 THEN rest
                 ELSE IF properties.propertyIdentifier \in DOMAIN rest
                      THEN rest
                      ELSE (properties.propertyIdentifier :> properties.propertyValue) @@ rest

return_value_read_multiple(response) ==
    LET results == response.listOfReadAccessResults
        ids == {results[i].objectIdentifier : i \in 1..Len(results)}
        lastOf(oid) == CHOOSE i \in 1..Len(results) :
                           /\ results[i].objectIdentifier = oid
                           /\ \A j \in (i + 1)..Len(results) : results[j].objectIdentifier # oid
    IN [oid \in ids |-> propertydict(oid, results[lastOf(oid)].listOfResults)]

InObjectFilter(object) == object[1] \in objectFilter

\* the error branch with the single-device test always false
ReadMultipleError_always_reduced(c, request, ioError) ==
    IF request.objectList = <<>>
    THEN Raise(c)
    ELSE ReadPropertyMultiple(c, request.objectList, ReducedPropertyList,
                              ioError.pduSource, TRUE)

\* the error branch with "and len(...) == 1" left out of the test
ReadMultipleError_no_length_test(c, request, ioError) ==
    IF request.objectList = <<>>
    THEN Raise(c)
    ELSE IF request.objectList[1][1] = "device"
         THEN ReadPropertyMultiple(c, <<request.objectList[1]>>, DevicePropertyList,
                                   ioError.pduSource, TRUE)
         ELSE ReadPropertyMultiple(c, request.objectList, ReducedPropertyList,
                                   ioError.pduSource, TRUE)

\* the error branch addressing its retry to the first device of the registry
ReadMultipleError_first_address(c, request, ioError) ==
    IF request.objectList = <<>> \/ c.reg = <<>>
    THEN Raise(c)
    ELSE IF request.objectList[1][1] = "device" /\ Len(request.objectList) = 1
         THEN ReadPropertyMultiple(c, <<request.objectList[1]>>, DevicePropertyList,
                                   c.reg[1].address, TRUE)
         ELSE ReadPropertyMultiple(c, request.objectList, ReducedPropertyList,
                                   c.reg[1].address, TRUE)

\* on_ReadMultipleResult, iocb.ioError set
ReadMultipleError(c, request, ioError) ==
    IF request.objectList = <<>>
    THEN Raise(c)
    ELSE IF request.objectList[1][1] = "device" /\ Len(request.objectList) = 1
         THEN ReadPropertyMultiple(c, <<request.objectList[1]>>, DevicePropertyList,
                                   ioError.pduSource, TRUE)
         ELSE ReadPropertyMultiple(c, request.objectList, ReducedPropertyList,
                                   ioError.pduSource, TRUE)

\* the body of the loop over response.listOfReadAccessResults, for one result
ReadMultipleResult(c, response, obj_dict, result) ==
    LET oid == result.objectIdentifier
    IN IF oid[1] = "device"
       THEN IF ~HasDevice(c.reg, oid)
            THEN {Raise(c)}
            ELSE IF oid \notin DOMAIN DeviceEntry(c.reg, oid).objects
                 THEN LET c1 == update_object(c, oid, addr_to_dev_id(c.reg, response.pduSource),
                                              obj_dict[oid])
                          objs == DeviceEntry(c1.reg, oid).objects
                      IN IF oid \notin DOMAIN objs
                         THEN {Raise(c1)}
                         ELSE IF "objectList" \notin DOMAIN objs[oid]
                              THEN {Raise(c1)}
                              ELSE {ReadPropertyMultiple(
                                        c1, SelectSeq(objs[oid]["objectList"], InObjectFilter),
                                        AllPropertyList, DeviceEntry(c1.reg, oid).address,
                                        FALSE)}
                 ELSE {update_object(c, oid, addr_to_dev_id(c.reg, response.pduSource),
                                     obj_dict[oid])}
       ELSE LET c1 == update_object(c, oid, addr_to_dev_id(c.reg, response.pduSource),
                                    obj_dict[oid])
            IN IF /\ <<oid, addr_to_dev_id(c1.reg, response.pduSource)>>
                          \notin DOMAIN c1.al.object_to_id
                  /\ oid[1] \in objectFilter
               THEN COVSubscribe(c1, oid, TRUE, response.pduSource)
               ELSE {c1}

\* the loop over the results from the i-th on: an exception ends it
RECURSIVE ReadMultipleResults(_, _, _, _)
ReadMultipleResults(c, response, obj_dict, i) ==
    IF c.raised \/ i > Len(response.listOfReadAccessResults)
    THEN {c}
    ELSE UNION {ReadMultipleResults(c1, response, obj_dict, i + 1) :
                   c1 \in ReadMultipleResult(c, response, obj_dict,
                                             response.listOfReadAccessResults[i])}

\* the handler's outcomes; ack tells whether ioResponse is a ReadPropertyMultipleACK
on_ReadMultipleResult(c, request, ioError, ack, response) ==
    IF ioError
    THEN {ReadMultipleError(c, request, ErrorPDU(request))}
    ELSE IF ~ack
         THEN {c}
         ELSE ReadMultipleResults(c, response, return_value_read_multiple(response), 1)

on_Subscribed(c, request, ioError) ==
    IF ~ioError
    THEN c
    ELSE [c EXCEPT !.al = unassign_id(
                              c.al,
                              <<request.monitoredObjectIdentifier,
                                addr_to_dev_id(c.reg, request.pduDestination)>>)]

----------------------------------------------------------------------------
(* COV notifications *)

\* the module-level disposition: (success, reject reason, abort reason)
rsvp == <<TRUE, "None", "None">>

\* the SimpleAckPDU built with context=apdu: it goes back to the apdu's source
SimpleAckPDU(apdu) ==
    [service |-> "SimpleAckPDU",
     objectList |-> <<>>,
     propertyList |-> <<>>,
     pduDestination |-> apdu.pduSource,
     subscriberProcessIdentifier |-> 0,
     monitoredObjectIdentifier |-> apdu.monitoredObjectIdentifier,
     issueConfirmedNotifications |-> "None",
     lifetime |-> 0,
     retry |-> FALSE]

\* the loop over apdu.listOfValues: [raised, dict]. issubclass(None, Array)
\* raises TypeError for a property without a datatype; a later value of a
\* property replaces an earlier one
RECURSIVE property_dict(_, _, _)
property_dict(objectID, listOfValues, acc) ==
    IF listOfValues = <<>>
    THEN [raised |-> FALSE, dict |-> acc]
    ELSE LET listvalue == Head(listOfValues)
         IN IF get_datatype(objectID[1], listvalue.propertyIdentifier) = "None"
            THEN [raised |-> TRUE, dict |-> acc]
            ELSE property_dict(objectID, Tail(listOfValues),
                               (listvalue.propertyIdentifier :> listvalue.value) @@ acc)

do_ConfirmedCOVNotificationRequest(c, apdu) ==
    LET decoded == property_dict(apdu.monitoredObjectIdentifier, apdu.listOfValues,
                                 EmptyDict)
    IN IF decoded.raised
       THEN Raise(c)
       ELSE LET c1 == update_object(c, apdu.monitoredObjectIdentifier,
                                    apdu.initiatingDeviceIdentifier, decoded.dict)
            IN IF rsvp[1]
               THEN [c1 EXCEPT !.sent = Append(@, SimpleAckPDU(apdu))]
               ELSE Raise(c1)

do_UnconfirmedCOVNotificationRequest(c, apdu) ==
    LET decoded == property_dict(apdu.monitoredObjectIdentifier, apdu.listOfValues,
                                 EmptyDict)
    IN IF decoded.raised
       THEN Raise(c)
       ELSE update_object(c, apdu.monitoredObjectIdentifier,
                          apdu.initiatingDeviceIdentifier, decoded.dict)

----------------------------------------------------------------------------
(* Single-property reads *)

\* a ReadPropertyRequest has objectIdentifier and propertyIdentifier, and no
\* listOfReadAccessSpecs
ReadPropertyRequest(objectID, propertyID, address) ==
    [service |-> "ReadPropertyRequest",
     objectIdentifier |-> objectID,
     propertyIdentifier |-> propertyID,
     pduDestination |-> address]

ReadProperty(c, objectID, propertyID, address) ==
    [c EXCEPT !.sent = Append(@, ReadPropertyRequest(objectID, propertyID, address))]

\* a ReadPropertyACK: the property asked for; a device's objectList is its
\* object list, any other property has the value
PeerReadResponse(request, value) ==
    [pduSource |-> request.pduDestination,
     objectIdentifier |-> request.objectIdentifier,
     propertyIdentifier |-> request.propertyIdentifier,
     propertyValue |-> IF /\ request.propertyIdentifier = "objectList"
                          /\ request.objectIdentifier[1] = "device"
                       THEN PeerObjectList(request.objectIdentifier)
                       ELSE value]

\* [raised, dict]: val_dict is keyed by the property identifier
return_value_read(response) ==
    IF get_datatype(response.objectIdentifier[1], response.propertyIdentifier) = "None"
    THEN [raised |-> TRUE, dict |-> EmptyDict]
    ELSE [raised |-> FALSE,
          dict |-> (response.propertyIdentifier :> response.propertyValue)]

\* "objectID in val_dict": the keys of val_dict are property identifiers (str),
\* objectID is an object identifier (tuple)
ObjectIdInValDict(objectID, val_dict) ==
    \E propertyID \in DOMAIN val_dict : <<"str", propertyID>> = <<"tuple", objectID>>

\* on_ReadResult, iocb.ioError set: iocb.args[0] is the request
ReadError(c, request, ioError) ==
    IF request.service # "ReadPropertyMultipleRequest"
    THEN Raise(c)    \* AttributeError: no listOfReadAccessSpecs
    ELSE IF request.objectList = <<>>
         THEN Raise(c)
         ELSE IF request.objectList[1][1] = "device"
              THEN ReadProperty(c, request.objectList[1], "objectList", ioError.pduSource)
              ELSE c

\* on_ReadResult, ReadPropertyACK: the body of the try; an exception ends it and
\* is swallowed by "except Exception: pass", what was done before it stays done
ReadResult(c, response) ==
    LET oid == response.objectIdentifier
        decoded == return_value_read(response)
        val_dict == decoded.dict
        deviceID == addr_to_dev_id(c.reg, response.pduSource)
    IN IF decoded.raised
       THEN {c}
       ELSE IF oid[1] = "device"
            THEN IF ~HasDevice(c.reg, oid)
                 THEN {c}
                 ELSE IF oid \notin DOMAIN DeviceEntry(c.reg, oid).objects
                      THEN LET c1 == update_object(c, oid, oid, val_dict)
                               props == DeviceEntry(c1.reg, oid).objects[oid]
                           IN IF "objectList" \notin DOMAIN props
                              THEN {c1}
                              ELSE {ReadPropertyMultiple(
                                        c1, props["objectList"], ReducedPropertyList,
                                        DeviceEntry(c1.reg, oid).address, FALSE)}
                      ELSE IF ~ObjectIdInValDict(oid, val_dict)
                           THEN {c}
                           ELSE {update_object(c, oid, deviceID, val_dict[oid])}
            ELSE IF ~ObjectIdInValDict(oid, val_dict)
                 THEN {c}
                 ELSE LET c1 == update_object(c, oid, deviceID, val_dict[oid])
                      IN IF /\ <<oid, deviceID>> \notin DOMAIN c1.al.object_to_id
                            /\ oid[1] \in objectFilter
                         THEN COVSubscribe(c1, oid, TRUE, response.pduSource)
                         ELSE {c1}

\* the handler's outcomes; ack tells whether ioResponse is a ReadPropertyACK
on_ReadResult(c, request, ioError, ack, response) ==
    IF ioError
    THEN {ReadError(c, request, ErrorPDU(request))}
    ELSE IF ~ack
         THEN {c}
         ELSE ReadResult(c, response)

----------------------------------------------------------------------------
(* The state machine *)

\* callers of the handler's request functions (the web API)
ApiObjectLists == {<<D1, O1>>, <<O3>>}
ApiPropertyLists == {ReducedPropertyList}
ApiReadAddresses == {"A1"}
ApiSubscribeObjects == {O1}
ApiUnsubscribeObjects == {O1}
ApiUnsubscribeAddresses == {"A1"}

\* the announcements peers make: device D2 may share D1's address
Announcements == {<<D1, "A1">>, <<D2, "A1">>, <<D2, "A2">>}

\* the keys the allocator is called with directly
AllocKeys == {<<O1, D1>>, <<O2, D1>>, <<O1, D2>>, <<O1, None>>}

\* no update_object call has set the change signal
NoMerge == [active |-> FALSE, deviceID |-> None, new_val |-> EmptyDict, objectID |-> None]

NoCall ==
    [op |-> "init", req |-> NoRequest, obj |-> None, dev |-> None, addr |-> "",
     ioError |-> FALSE, response |-> NoResponse, sent |-> <<>>, calls |-> <<>>,
     raised |-> FALSE, val |-> EmptyDict, listOfValues |-> <<>>]

Init ==
    /\ BACnetDeviceDict = <<>>
    /\ id_to_object = EmptyDict
    /\ object_to_id = EmptyDict
    /\ available_ids = {}
    /\ next_id = 1
    /\ updateEvent = FALSE
    /\ pending = EmptyBag
    /\ last = NoCall
    /\ freed = [id |-> 0, then |-> 0]
    /\ apiReads = 0
    /\ merging = NoMerge
    /\ observer = [pc |-> "wait", seen |-> <<>>]

HasFresh(calls) == \E i \in 1..Len(calls) : calls[i].fresh

\* the first assign_id call of a handler that gave a key without an id one
FirstFresh(calls) ==
    calls[CHOOSE i \in 1..Len(calls) :
              calls[i].fresh /\ \A j \in 1..(i - 1) : ~calls[j].fresh]

\* the state after a handler that ended in c: rest are the requests still in
\* flight, call describes the handler's input, released is the id the step
\* returned to the pool (0: none)
Finish(c, rest, call, released) ==
    /\ BACnetDeviceDict' = c.reg
    /\ updateEvent' = c.ev
    /\ id_to_object' = c.al.id_to_object
    /\ object_to_id' = c.al.object_to_id
    /\ available_ids' = c.al.available_ids
    /\ next_id' = c.al.next_id
    /\ pending' = rest (+) SeqToBag(SelectSeq(c.sent, IsRequest))
    /\ last' = [call EXCEPT !.sent = c.sent, !.calls = c.calls, !.raised = c.raised]
    /\ freed' = IF released # 0
                THEN [id |-> released, then |-> 0]
                ELSE IF HasFresh(c.calls) /\ freed.id # 0 /\ freed.then = 0
                     THEN [freed EXCEPT !.then = FirstFresh(c.calls).id]
                     ELSE freed
    /\ UNCHANGED <<merging, observer>>

\* the subscribe requests in flight
PendingSubscribes ==
    LET subs == {r \in BagToSet(pending) : r.service = "SubscribeCOVRequest"}
    IN BagCardinality([r \in subs |-> pending[r]])

Room == PendingSubscribes < MaxPending

AssignIdCall(key) ==
    /\ \E out \in assign_id(Alloc, key) :
          Finish(Assigned(Ctx, key, out), pending,
                 [NoCall EXCEPT !.op = "assign_id", !.obj = key[1], !.dev = key[2]], 0)
    /\ UNCHANGED apiReads

UnassignIdCall(key) ==
    /\ Finish([Ctx EXCEPT !.al = unassign_id(Alloc, key)], pending,
              [NoCall EXCEPT !.op = "unassign_id", !.obj = key[1], !.dev = key[2]],
              IF key \in DOMAIN object_to_id THEN object_to_id[key] ELSE 0)
    /\ UNCHANGED apiReads

IAm(dev, addr) ==
    /\ Finish(do_IAmRequest(Ctx, addr, dev), pending,
              [NoCall EXCEPT !.op = "do_IAmRequest", !.dev = dev, !.addr = addr], 0)
    /\ UNCHANGED apiReads

ApiReadPropertyMultiple(objectList, propertyList, addr) ==
    /\ apiReads < MaxApiReads
    /\ apiReads' = apiReads + 1
    /\ Finish(ReadPropertyMultiple(Ctx, objectList, propertyList, addr, FALSE), pending,
              [NoCall EXCEPT !.op = "ReadPropertyMultiple", !.addr = addr], 0)

ApiCOVSubscribe(objectID, confirmationType, addr) ==
    /\ Room
    /\ \E c \in COVSubscribe(Ctx, objectID, confirmationType, addr) :
          Finish(c, pending,
                 [NoCall EXCEPT !.op = "COVSubscribe", !.obj = objectID, !.addr = addr], 0)
    /\ UNCHANGED apiReads

ApiCOVUnsubscribe(objectID, confirmationType, addr) ==
    /\ \E c \in COVUnsubscribe(Ctx, objectID, confirmationType, addr) :
          Finish(c, pending,
                 [NoCall EXCEPT !.op = "COVUnsubscribe", !.obj = objectID, !.addr = addr], 0)
    /\ UNCHANGED apiReads

\* a ReadPropertyMultipleRequest completes with an Error, Reject or Abort
ReadMultipleFails(request) ==
    /\ BagIn(request, pending)
    /\ request.service = "ReadPropertyMultipleRequest"
    /\ \E c \in on_ReadMultipleResult(Ctx, request, TRUE, FALSE, NoResponse) :
          Finish(c, pending (-) SetToBag({request}),
                 [NoCall EXCEPT !.op = "on_ReadMultipleResult", !.req = request,
                                !.addr = request.pduDestination, !.ioError = TRUE], 0)
    /\ UNCHANGED apiReads

\* a ReadPropertyMultipleRequest completes with a ReadPropertyMultipleACK
ReadMultipleSucceeds(request, value, listOk) ==
    /\ BagIn(request, pending)
    /\ request.service = "ReadPropertyMultipleRequest"
    /\ LET response == PeerResponse(request, value, listOk)
       IN \E c \in on_ReadMultipleResult(Ctx, request, FALSE, TRUE, response) :
             Finish(c, pending (-) SetToBag({request}),
                    [NoCall EXCEPT !.op = "on_ReadMultipleResult", !.req = request,
                                   !.addr = request.pduDestination,
                                   !.response = response], 0)
    /\ UNCHANGED apiReads

\* a ReadPropertyMultipleRequest completes with a response that is no
\* ReadPropertyMultipleACK
ReadMultipleWrongAck(request) ==
    /\ BagIn(request, pending)
    /\ request.service = "ReadPropertyMultipleRequest"
    /\ \E c \in on_ReadMultipleResult(Ctx, request, FALSE, FALSE, NoResponse) :
          Finish(c, pending (-) SetToBag({request}),
                 [NoCall EXCEPT !.op = "on_ReadMultipleResult", !.req = request,
                                !.addr = request.pduDestination], 0)
    /\ UNCHANGED apiReads

SubscribeSucceeds(request) ==
    /\ BagIn(request, pending)
    /\ request.service = "SubscribeCOVRequest"
    /\ Finish(on_Subscribed(Ctx, request, FALSE), pending (-) SetToBag({request}),
              [NoCall EXCEPT !.op = "on_Subscribed", !.req = request,
                             !.obj = request.monitoredObjectIdentifier,
                             !.addr = request.pduDestination], 0)
    /\ UNCHANGED apiReads

SubscribeFails(request) ==
    /\ BagIn(request, pending)
    /\ request.service = "SubscribeCOVRequest"
    /\ LET key == <<request.monitoredObjectIdentifier,
                    addr_to_dev_id(BACnetDeviceDict, request.pduDestination)>>
       IN Finish(on_Subscribed(Ctx, request, TRUE), pending (-) SetToBag({request}),
                 [NoCall EXCEPT !.op = "on_Subscribed", !.req = request,
                                !.obj = request.monitoredObjectIdentifier,
                                !.addr = request.pduDestination, !.ioError = TRUE],
                 IF key \in DOMAIN object_to_id THEN object_to_id[key] ELSE 0)
    /\ UNCHANGED apiReads

Next ==
    \/ \E iam \in Announcements : IAm(iam[1], iam[2])
    \/ \E objectList \in ApiObjectLists, propertyList \in ApiPropertyLists,
          addr \in ApiReadAddresses :
          ApiReadPropertyMultiple(objectList, propertyList, addr)
    \/ \E request \in BagToSet(pending) : ReadMultipleFails(request)
    \/ \E request \in BagToSet(pending), value \in Values, listOk \in BOOLEAN :
          ReadMultipleSucceeds(request, value, listOk)
    \/ \E request \in BagToSet(pending) : ReadMultipleWrongAck(request)
    \/ \E request \in BagToSet(pending) : SubscribeSucceeds(request)
    \/ \E request \in BagToSet(pending) : SubscribeFails(request)

Spec == Init /\ [][Next]_vars

\* subscriptions made and torn down by the callers of the request functions
NextSubscriptions ==
    \/ \E iam \in Announcements : IAm(iam[1], iam[2])
    \/ \E objectID \in ApiSubscribeObjects, addr \in Addresses, confirmationType \in BOOLEAN :
          ApiCOVSubscribe(objectID, confirmationType, addr)
    \/ \E objectID \in ApiUnsubscribeObjects, addr \in ApiUnsubscribeAddresses,
          confirmationType \in BOOLEAN :
          ApiCOVUnsubscribe(objectID, confirmationType, addr)
    \/ \E request \in BagToSet(pending) : SubscribeSucceeds(request)
    \/ \E request \in BagToSet(pending) : SubscribeFails(request)

SpecSubscriptions == Init /\ [][NextSubscriptions]_vars

\* the allocator alone, called with arbitrary keys
NextAlloc ==
    \/ \E key \in AllocKeys : AssignIdCall(key)
    \/ \E key \in AllocKeys : UnassignIdCall(key)

SpecAlloc == Init /\ [][NextAlloc]_vars

\* merges: the properties and values merged, and the notifications peers send
MergeObjects == {O1}
MergeProperties == {"presentValue", "statusFlags"}
MergeValues == {1, 2}

PropertyMaps == UNION {[S -> MergeValues] : S \in (SUBSET MergeProperties) \ {{}}}

\* "proprietary" is a property bacpypes knows no datatype of
CovValueLists ==
    {<<[propertyIdentifier |-> "presentValue", value |-> 1]>>,
     <<[propertyIdentifier |-> "presentValue", value |-> 2],
       [propertyIdentifier |-> "statusFlags", value |-> 1]>>,
     <<[propertyIdentifier |-> "proprietary", value |-> 1]>>}

Notifications ==
    [pduSource : {"A1"},
     monitoredObjectIdentifier : MergeObjects,
     initiatingDeviceIdentifier : Devices,
     listOfValues : CovValueLists]

UpdateObjectCall(objectID, deviceID, new_val) ==
    /\ Finish(update_object(Ctx, objectID, deviceID, new_val), pending,
              [NoCall EXCEPT !.op = "update_object", !.obj = objectID, !.dev = deviceID,
                             !.val = new_val], 0)
    /\ UNCHANGED apiReads

ConfirmedCOVNotification(apdu) ==
    /\ Finish(do_ConfirmedCOVNotificationRequest(Ctx, apdu), pending,
              [NoCall EXCEPT !.op = "do_ConfirmedCOVNotificationRequest",
                             !.obj = apdu.monitoredObjectIdentifier,
                             !.dev = apdu.initiatingDeviceIdentifier,
                             !.addr = apdu.pduSource,
                             !.listOfValues = apdu.listOfValues], 0)
    /\ UNCHANGED apiReads

UnconfirmedCOVNotification(apdu) ==
    /\ Finish(do_UnconfirmedCOVNotificationRequest(Ctx, apdu), pending,
              [NoCall EXCEPT !.op = "do_UnconfirmedCOVNotificationRequest",
                             !.obj = apdu.monitoredObjectIdentifier,
                             !.dev = apdu.initiatingDeviceIdentifier,
                             !.addr = apdu.pduSource,
                             !.listOfValues = apdu.listOfValues], 0)
    /\ UNCHANGED apiReads

\* an observer that waited on the change signal clears it
ObserverClears ==
    /\ updateEvent
    /\ updateEvent' = FALSE
    /\ last' = [NoCall EXCEPT !.op = "updateEvent.clear"]
    /\ UNCHANGED <<BACnetDeviceDict, id_to_object, object_to_id, available_ids, next_id,
                   pending, freed, apiReads, merging, observer>>

\* the registry under announcements, merges and notifications
NextMerge ==
    \/ \E iam \in Announcements : IAm(iam[1], iam[2])
    \/ \E objectID \in MergeObjects, deviceID \in Devices, new_val \in PropertyMaps :
          UpdateObjectCall(objectID, deviceID, new_val)
    \/ \E apdu \in Notifications : ConfirmedCOVNotification(apdu)
    \/ \E apdu \in Notifications : UnconfirmedCOVNotification(apdu)
    \/ ObserverClears

SpecMerge == Init /\ [][NextMerge]_vars

\* single-property reads made by the callers of ReadProperty
ApiReadObjects == {D1, O1}
ApiReadProperties == {"objectList", "presentValue"}

ApiReadProperty(objectID, propertyID, addr) ==
    /\ apiReads < MaxApiReads
    /\ apiReads' = apiReads + 1
    /\ Finish(ReadProperty(Ctx, objectID, propertyID, addr), pending,
              [NoCall EXCEPT !.op = "ReadProperty", !.obj = objectID, !.addr = addr], 0)

\* a ReadPropertyRequest completes with an Error, Reject or Abort
ReadFails(request) ==
    /\ BagIn(request, pending)
    /\ request.service = "ReadPropertyRequest"
    /\ \E c \in on_ReadResult(Ctx, request, TRUE, FALSE, NoResponse) :
          Finish(c, pending (-) SetToBag({request}),
                 [NoCall EXCEPT !.op = "on_ReadResult", !.req = request,
                                !.obj = request.objectIdentifier,
                                !.addr = request.pduDestination, !.ioError = TRUE], 0)
    /\ UNCHANGED apiReads

\* a ReadPropertyRequest completes with a ReadPropertyACK
ReadSucceeds(request, value) ==
    /\ BagIn(request, pending)
    /\ request.service = "ReadPropertyRequest"
    /\ LET response == PeerReadResponse(request, value)
       IN \E c \in on_ReadResult(Ctx, request, FALSE, TRUE, response) :
             Finish(c, pending (-) SetToBag({request}),
                    [NoCall EXCEPT !.op = "on_ReadResult", !.req = request,
                                   !.obj = request.objectIdentifier,
                                   !.addr = request.pduDestination,
                                   !.response = response], 0)
    /\ UNCHANGED apiReads

\* a ReadPropertyRequest completes with a response that is no ReadPropertyACK
ReadWrongAck(request) ==
    /\ BagIn(request, pending)
    /\ request.service = "ReadPropertyRequest"
    /\ \E c \in on_ReadResult(Ctx, request, FALSE, FALSE, NoResponse) :
          Finish(c, pending (-) SetToBag({request}),
                 [NoCall EXCEPT !.op = "on_ReadResult", !.req = request,
                                !.obj = request.objectIdentifier,
                                !.addr = request.pduDestination], 0)
    /\ UNCHANGED apiReads

\* discovery with single-property reads made by the API
NextReadOne ==
    \/ \E iam \in Announcements : IAm(iam[1], iam[2])
    \/ \E objectID \in ApiReadObjects, propertyID \in ApiReadProperties,
          addr \in ApiReadAddresses :
          ApiReadProperty(objectID, propertyID, addr)
    \/ \E request \in BagToSet(pending) : ReadFails(request)
    \/ \E request \in BagToSet(pending), value \in Values : ReadSucceeds(request, value)
    \/ \E request \in BagToSet(pending) : ReadWrongAck(request)
    \/ \E request \in BagToSet(pending) : ReadMultipleFails(request)
    \/ \E request \in BagToSet(pending), value \in Values, listOk \in BOOLEAN :
          ReadMultipleSucceeds(request, value, listOk)
    \/ \E request \in BagToSet(pending) : SubscribeSucceeds(request)
    \/ \E request \in BagToSet(pending) : SubscribeFails(request)

SpecReadOne == Init /\ [][NextReadOne]_vars

\* discovery against peers that answer every request successfully
NextDiscovery ==
    \/ \E iam \in Announcements : IAm(iam[1], iam[2])
    \/ \E request \in BagToSet(pending), value \in Values :
          ReadMultipleSucceeds(request, value, TRUE)
    \/ \E request \in BagToSet(pending) : SubscribeSucceeds(request)

\* every request submitted with request_io completes
Completions ==
    /\ WF_vars(\E request \in BagToSet(pending), value \in Values :
                  ReadMultipleSucceeds(request, value, TRUE))
    /\ WF_vars(\E request \in BagToSet(pending) : SubscribeSucceeds(request))

SpecDiscovery == Init /\ [][NextDiscovery]_vars /\ Completions

----------------------------------------------------------------------------
(* What the claims speak of *)

IsReadMany(request) == request.service = "ReadPropertyMultipleRequest"

IsSubscribe(request) == request.service = "SubscribeCOVRequest"

\* a readMany that names exactly one object, a device
SingleDevice(request) ==
    Len(request.objectList) = 1 /\ request.objectList[1][1] = "device"

\* the last step was on_ReadMultipleResult for a request that completed with an error
ReadManyFailed == last.op = "on_ReadMultipleResult" /\ last.ioError

DeviceShape ==
    <<"objectIdentifier", "objectType", "objectName", "systemStatus", "vendorName",
      "vendorIdentifier", "objectList", "description", "modelName">>

ReducedShape ==
    <<"objectIdentifier", "objectName", "description", "presentValue", "statusFlags",
      "outOfService", "units", "reliability">>

----------------------------------------------------------------------------
\* C1: in every state reached by assign_id / unassign_id calls no two keys that
\* hold an id hold the same id, and every id assign_id returned is an integer >= 1
C1_LiveIdsDistinct ==
    /\ \A k1, k2 \in DOMAIN object_to_id :
          object_to_id[k1] = object_to_id[k2] => k1 = k2
    /\ \A i \in 1..Len(last.calls) :
          last.calls[i].id \in Int /\ last.calls[i].id >= 1

\* three keys hold ids at once, the last of them given an id taken from the pool
C1_Witness ==
    /\ last.op = "assign_id"
    /\ Len(last.calls) = 1 /\ last.calls[1].fresh
    /\ last.calls[1].id < next_id - 1
    /\ Cardinality(DOMAIN object_to_id) >= 3

\* C2: once the reduced-property-list retry of a readMany has itself completed
\* with an error, the error handler issues no further readMany for that batch
C2_RetryBounded ==
    (ReadManyFailed /\ last.req.retry /\ last.req.propertyList = ReducedShape)
        => last.sent = <<>>

\* C3: an error for a readMany that named exactly one object, a device, is
\* answered by exactly one retry: a readMany for that device with the
\* device-property list, not the reduced list
C3_SingleDeviceRetry ==
    (ReadManyFailed /\ SingleDevice(last.req))
        => /\ Len(last.sent) = 1
           /\ IsReadMany(last.sent[1])
           /\ last.sent[1].objectList = <<last.req.objectList[1]>>
           /\ last.sent[1].propertyList = DeviceShape
           /\ last.sent[1].propertyList # ReducedShape
           /\ last.sent[1].pduDestination = last.req.pduDestination

\* the retry of a device read has failed again and was retried again
C3_Witness ==
    /\ ReadManyFailed /\ SingleDevice(last.req) /\ last.req.retry
    /\ Len(last.sent) = 1

\* C4: an error for a readMany that is not a single-device request is answered
\* by a readMany over the same objects with the reduced property list, and no
\* retry with the reduced list is a single-device request, so that no later
\* retry of the batch takes the device-shaped branch
C4_ReducedRetry ==
    /\ (ReadManyFailed /\ last.req.objectList # <<>> /\ ~SingleDevice(last.req))
          => /\ Len(last.sent) = 1
             /\ IsReadMany(last.sent[1])
             /\ last.sent[1].objectList = last.req.objectList
             /\ last.sent[1].propertyList = ReducedShape
             /\ ~SingleDevice(last.sent[1])
    /\ \A request \in BagToSet(pending) :
          (IsReadMany(request) /\ request.retry /\ request.propertyList = ReducedShape)
              => ~SingleDevice(request)

\* a request for a device and another object failed and was retried, and so
\* did its retry
C4_Witness ==
    /\ ReadManyFailed /\ last.req.retry
    /\ Len(last.req.objectList) > 1 /\ last.req.objectList[1][1] = "device"
    /\ Len(last.sent) = 1

\* C5: an I-Am for a device id not in the registry, from address A, leaves the
\* registry holding the device with address A and no object, and issues exactly
\* one readMany, to A, for that device alone with the device-property list
C5_Announcement ==
    [][\A iam \in Announcements :
          (/\ last'.op = "do_IAmRequest"
           /\ last'.dev = iam[1] /\ last'.addr = iam[2]
           /\ ~HasDevice(BACnetDeviceDict, iam[1]))
          => /\ HasDevice(BACnetDeviceDict', iam[1])
             /\ DeviceEntry(BACnetDeviceDict', iam[1]).address = iam[2]
             /\ DOMAIN DeviceEntry(BACnetDeviceDict', iam[1]).objects = {}
             /\ Len(last'.sent) = 1
             /\ IsReadMany(last'.sent[1])
             /\ last'.sent[1].pduDestination = iam[2]
             /\ last'.sent[1].objectList = <<iam[1]>>
             /\ last'.sent[1].propertyList = DeviceShape
             /\ pending' = pending (+) SetToBag({last'.sent[1]})]_vars

\* a second device has announced itself and its device read was issued
C5_Witness ==
    /\ last.op = "do_IAmRequest"
    /\ Len(last.sent) = 1
    /\ Len(BACnetDeviceDict) = 2
    /\ DOMAIN DeviceEntry(BACnetDeviceDict, last.dev).objects = {}

\* whether a read result carries the device's objectList, and the list it carries
ReturnsObjectList(result) ==
    \E j \in 1..Len(result.listOfResults) :
        /\ result.listOfResults[j].propertyIdentifier = "objectList"
        /\ ~result.listOfResults[j].propertyAccessError

ReturnedObjectList(result) ==
    result.listOfResults[CHOOSE j \in 1..Len(result.listOfResults) :
                             /\ result.listOfResults[j].propertyIdentifier = "objectList"
                             /\ ~result.listOfResults[j].propertyAccessError].propertyValue

\* C6: the first successful device-property readMany for a registered device,
\* answered from the device's registered address, triggers exactly one follow-up
\* readMany, to that address, for the entries of the returned objectList whose
\* type is in the allow-list; a later successful read of the device triggers none
C6_FollowUp ==
    [][(last'.op = "on_ReadMultipleResult" /\ ~last'.ioError)
        => \A i \in 1..Len(last'.response.listOfReadAccessResults) :
              LET result == last'.response.listOfReadAccessResults[i]
                  dev == result.objectIdentifier
                  reads == SelectSeq(last'.sent, IsReadMany)
              IN (/\ dev[1] = "device"
                  /\ HasDevice(BACnetDeviceDict, dev)
                  /\ DeviceEntry(BACnetDeviceDict, dev).address = last'.response.pduSource
                  /\ ReturnsObjectList(result))
                 => IF dev \notin DOMAIN DeviceEntry(BACnetDeviceDict, dev).objects
                    THEN /\ Len(reads) = 1
                         /\ reads[1].pduDestination = DeviceEntry(BACnetDeviceDict, dev).address
                         /\ reads[1].objectList =
                                SelectSeq(ReturnedObjectList(result), InObjectFilter)
                    ELSE reads = <<>>]_vars

\* C7: a successful readMany result for a non-device object O from the address
\* of device D, O of an allow-listed type and (O, D) without an id, causes
\* exactly one subscribe for O, confirmed, to that address, carrying the id of
\* (O, D); a result for an object of another type causes no subscribe
C7_SubscribeOnRead ==
    [][(last'.op = "on_ReadMultipleResult" /\ ~last'.ioError)
        => \A i \in 1..Len(last'.response.listOfReadAccessResults) :
              LET O == last'.response.listOfReadAccessResults[i].objectIdentifier
                  src == last'.response.pduSource
                  D == addr_to_dev_id(BACnetDeviceDict, src)
                  subs == {j \in 1..Len(last'.sent) :
                              /\ IsSubscribe(last'.sent[j])
                              /\ last'.sent[j].monitoredObjectIdentifier = O}
              IN (O[1] # "device" /\ D # None)
                 => /\ (O[1] \in objectFilter /\ <<O, D>> \notin DOMAIN object_to_id)
                       => /\ Cardinality(subs) = 1
                          /\ <<O, D>> \in DOMAIN object_to_id'
                          /\ \A j \in subs :
                                /\ last'.sent[j].issueConfirmedNotifications = "true"
                                /\ last'.sent[j].pduDestination = src
                                /\ last'.sent[j].subscriberProcessIdentifier
                                      = object_to_id'[<<O, D>>]
                    /\ O[1] \notin objectFilter => subs = {}]_vars

\* an on_Subscribed error takes the id of the request's key out of the live
\* mappings and puts it into the reclaim pool
SubscribeErrorReclaims ==
    (last'.op = "on_Subscribed" /\ last'.ioError)
        => LET key == <<last'.req.monitoredObjectIdentifier,
                        addr_to_dev_id(BACnetDeviceDict, last'.req.pduDestination)>>
           IN key \in DOMAIN object_to_id
                 => /\ key \notin DOMAIN object_to_id'
                    /\ object_to_id[key] \notin DOMAIN id_to_object'
                    /\ object_to_id[key] \in available_ids'

C9_UnsubscribeReleases ==
    last.op = "COVUnsubscribe"
        => LET key == <<last.obj, addr_to_dev_id(BACnetDeviceDict, last.addr)>>
           IN /\ key \notin DOMAIN object_to_id
              /\ \A i \in 1..Len(last.calls) :
                    ~last.calls[i].fresh => last.calls[i].id \in available_ids

\* C10: every COVUnsubscribe(O, confirmationType, address) submits exactly one
\* subscribe request to the address, for O, with lifetime 1 and the id of
\* (O, deviceIdOf(address)), handled on completion by on_Subscribed
C10_UnsubscribeRequest ==
    last.op = "COVUnsubscribe"
        => /\ Len(last.sent) = 1
           /\ Len(last.calls) = 1
           /\ IsSubscribe(last.sent[1])
           /\ last.sent[1].pduDestination = last.addr
           /\ last.sent[1].monitoredObjectIdentifier = last.obj
           /\ last.sent[1].lifetime = 1
           /\ last.sent[1].subscriberProcessIdentifier = last.calls[1].id
           /\ BagIn(last.sent[1], pending)

----------------------------------------------------------------------------
(* Merges, notifications and the change signal *)

\* the last step was update_object(last.obj, last.dev, last.val) for a registered device
MergedNow == last'.op = "update_object" /\ HasDevice(BACnetDeviceDict, last'.dev)

\* C11: a merge for a registered device never replaces an object's property map:
\* the properties named in the merge take the given values (last write wins),
\* every other property, object and device keeps what it had, and the first
\* merge for an absent object creates it with exactly the given map
C11_MergeKeeps ==
    [][MergedNow =>
        LET i == DeviceIndex(BACnetDeviceDict, last'.dev)
            old == BACnetDeviceDict[i].objects
            new == BACnetDeviceDict'[i].objects
            O == last'.obj
            m == last'.val
        IN /\ Len(BACnetDeviceDict') = Len(BACnetDeviceDict)
           /\ \A j \in 1..Len(BACnetDeviceDict) :
                 j # i => BACnetDeviceDict'[j] = BACnetDeviceDict[j]
           /\ BACnetDeviceDict'[i].key = BACnetDeviceDict[i].key
           /\ BACnetDeviceDict'[i].address = BACnetDeviceDict[i].address
           /\ DOMAIN new = DOMAIN old \cup {O}
           /\ \A o \in DOMAIN old \ {O} : new[o] = old[o]
           /\ IF O \in DOMAIN old
              THEN /\ DOMAIN new[O] = DOMAIN old[O] \cup DOMAIN m
                   /\ \A p \in DOMAIN new[O] :
                         new[O][p] = IF p \in DOMAIN m THEN m[p] ELSE old[O][p]
              ELSE new[O] = m]_vars

\* a merge of statusFlags alone into an object that had presentValue: both are set
C11_Witness ==
    /\ last.op = "update_object"
    /\ HasDevice(BACnetDeviceDict, last.dev)
    /\ DOMAIN last.val = {"statusFlags"}
    /\ last.obj \in DOMAIN DeviceEntry(BACnetDeviceDict, last.dev).objects
    /\ DOMAIN DeviceEntry(BACnetDeviceDict, last.dev).objects[last.obj]
          = {"presentValue", "statusFlags"}

\* the last step was a COV notification handler
IsNotification ==
    last.op \in {"do_ConfirmedCOVNotificationRequest", "do_UnconfirmedCOVNotificationRequest"}

\* every (property, value) pair of the notification, the last one of a property,
\* is in the registry under (monitored object, initiating device)
NotificationMerged ==
    /\ HasDevice(BACnetDeviceDict, last.dev)
    /\ last.obj \in DOMAIN DeviceEntry(BACnetDeviceDict, last.dev).objects
    /\ LET props == DeviceEntry(BACnetDeviceDict, last.dev).objects[last.obj]
       IN \A k \in 1..Len(last.listOfValues) :
             (\A n \in (k + 1)..Len(last.listOfValues) :
                 last.listOfValues[n].propertyIdentifier
                    # last.listOfValues[k].propertyIdentifier)
                => /\ last.listOfValues[k].propertyIdentifier \in DOMAIN props
                   /\ props[last.listOfValues[k].propertyIdentifier]
                         = last.listOfValues[k].value

\* C12: every COV notification is merged into the registry under (monitored
\* object, initiating device); a confirmed one is answered with exactly one
\* positive acknowledgement, after the merge, an unconfirmed one with nothing
C12_NotificationMergedThenAcked ==
    IsNotification
        => /\ NotificationMerged
           /\ last.op = "do_ConfirmedCOVNotificationRequest"
                 => /\ Len(last.sent) = 1
                    /\ last.sent[1].service = "SimpleAckPDU"
                    /\ last.sent[1].pduDestination = last.addr
           /\ last.op = "do_UnconfirmedCOVNotificationRequest" => last.sent = <<>>

----------------------------------------------------------------------------
(* The allocator: idempotence and reuse *)

\* the key of the last direct allocator call
LastKey == <<last.obj, last.dev>>

\* C13: assign_id for a key that holds an id returns that id and changes neither
\* the live mappings, the pool nor the counter; a key keeps its id through every
\* call that is not an unassign_id of that key
C13_AssignIdempotent ==
    [][/\ (last'.op = "assign_id" /\ LastKey' \in DOMAIN object_to_id)
             => /\ last'.calls[1].id = object_to_id[LastKey']
                /\ UNCHANGED <<id_to_object, object_to_id, available_ids, next_id>>
       /\ \A k \in DOMAIN object_to_id :
             ~(last'.op = "unassign_id" /\ LastKey' = k)
                => /\ k \in DOMAIN object_to_id'
                   /\ object_to_id'[k] = object_to_id[k]]_vars

\* a second assign_id of a key, made while the pool held a reclaimed id
C13_Witness ==
    /\ last.op = "assign_id"
    /\ ~last.calls[1].fresh
    /\ available_ids # {}
    /\ object_to_id[LastKey] = last.calls[1].id

----------------------------------------------------------------------------
(* The registry *)

\* C14: an announcement for a device id already in the registry changes nothing
\* and issues no request, whatever address it comes from; no operation removes
\* a registered device or changes its address
C14_KnownDeviceNoOp ==
    [][/\ (last'.op = "do_IAmRequest" /\ HasDevice(BACnetDeviceDict, last'.dev))
             => /\ BACnetDeviceDict' = BACnetDeviceDict
                /\ last'.sent = <<>>
                /\ pending' = pending
       /\ Len(BACnetDeviceDict') >= Len(BACnetDeviceDict)
       /\ \A i \in 1..Len(BACnetDeviceDict) :
             /\ BACnetDeviceDict'[i].key = BACnetDeviceDict[i].key
             /\ BACnetDeviceDict'[i].address = BACnetDeviceDict[i].address]_vars

\* a device with properties loaded announced itself again, from another address
C14_Witness ==
    /\ last.op = "do_IAmRequest"
    /\ last.sent = <<>>
    /\ HasDevice(BACnetDeviceDict, last.dev)
    /\ DeviceEntry(BACnetDeviceDict, last.dev).address # last.addr
    /\ DeviceEntry(BACnetDeviceDict, last.dev).objects # EmptyDict

----------------------------------------------------------------------------
(* The change signal *)

\* the operations of SpecMerge that call update_object
CallsUpdateObject(op) ==
    op \in {"update_object", "do_ConfirmedCOVNotificationRequest",
            "do_UnconfirmedCOVNotificationRequest"}

----------------------------------------------------------------------------
(* Single-property reads *)

IsReadOne(request) == request.service = "ReadPropertyRequest"

\* C19: an error completion of a ReadProperty request for a device object issues
\* exactly one retry, a ReadProperty of that device's objectList to the erroring
\* peer's address; for any other object it issues nothing
C19_ReadOneRetry ==
    (last.op = "on_ReadResult" /\ last.ioError)
        => IF last.req.objectIdentifier[1] = "device"
           THEN /\ Len(last.sent) = 1
                /\ IsReadOne(last.sent[1])
                /\ last.sent[1].objectIdentifier = last.req.objectIdentifier
                /\ last.sent[1].propertyIdentifier = "objectList"
                /\ last.sent[1].pduDestination = last.req.pduDestination
           ELSE last.sent = <<>>

\* C20: a ReadPropertyACK for a non-device object O from the address of a
\* registered device D merges the property read into the registry under (D, O)
\* and, when O's type is allow-listed and (O, D) held no id, issues one
\* confirmed subscribe for O to that address
C20_ReadOneMerged ==
    [][(last'.op = "on_ReadResult" /\ ~last'.ioError /\ last'.response.pduSource # "")
        => LET O == last'.response.objectIdentifier
               src == last'.response.pduSource
               D == addr_to_dev_id(BACnetDeviceDict, src)
               subs == SelectSeq(last'.sent, IsSubscribe)
           IN (O[1] # "device" /\ D # None)
                 => /\ O \in DOMAIN DeviceEntry(BACnetDeviceDict', D).objects
                    /\ last'.response.propertyIdentifier
                          \in DOMAIN DeviceEntry(BACnetDeviceDict', D).objects[O]
                    /\ DeviceEntry(BACnetDeviceDict', D).objects[O]
                                [last'.response.propertyIdentifier]
                          = last'.response.propertyValue
                    /\ (O[1] \in objectFilter /\ <<O, D>> \notin DOMAIN object_to_id)
                          => /\ Len(subs) = 1
                             /\ subs[1].monitoredObjectIdentifier = O
                             /\ subs[1].issueConfirmedNotifications = "true"
                             /\ subs[1].pduDestination = src]_vars

----------------------------------------------------------------------------
(* Errors and the pipelines of other devices *)

\* the last step was the completion handler of a request that failed
ErrorCompletion ==
    /\ last.op \in {"on_ReadMultipleResult", "on_ReadResult", "on_Subscribed"}
    /\ last.ioError

\* the step leaves the i-th device of the registry alone: its entry, the ids of
\* its keys and the requests in flight to its address stay, and nothing is
\* sent to its address
LeftAlone(i) ==
    LET other == BACnetDeviceDict[i]
    IN /\ BACnetDeviceDict'[i] = other
       /\ \A n \in 1..Len(last'.sent) : last'.sent[n].pduDestination # other.address
       /\ \A k \in DOMAIN object_to_id :
             k[2] = other.key => /\ k \in DOMAIN object_to_id'
                              /\ object_to_id'[k] = object_to_id[k]
       /\ \A r \in BagToSet(pending) :
             r.pduDestination = other.address
                => CopiesIn(r, pending') >= CopiesIn(r, pending)

\* C16 as stated: an error completion for a request sent to device D1 leaves
\* every other registered device D2 alone
C16_ErrorsIsolated ==
    [][ErrorCompletion'
        => \A i, j \in 1..Len(BACnetDeviceDict) :
              (i # j /\ BACnetDeviceDict[j].address = last'.req.pduDestination)
                 => LeftAlone(i)]_vars

\* C16: an error completion for a request sent to an address leaves every
\* registered device at another address alone
C16_ErrorsIsolatedByAddress ==
    [][ErrorCompletion'
        => \A i \in 1..Len(BACnetDeviceDict) :
              BACnetDeviceDict[i].address # last'.req.pduDestination
                 => LeftAlone(i)]_vars

\* a request to A2 failed and was retried while device D1, at A1, held a
\* subscriber id
C16_Witness ==
    /\ ErrorCompletion
    /\ last.req.pduDestination = "A2"
    /\ last.sent # <<>>
    /\ HasDevice(BACnetDeviceDict, D1)
    /\ DeviceEntry(BACnetDeviceDict, D1).address = "A1"
    /\ \E k \in DOMAIN object_to_id : k[2] = D1

----------------------------------------------------------------------------
(* Discovery *)

\* every allow-listed object of the object list device dev reports has its
\* properties in the registry under dev and a live subscriber id for (object, dev)
SteadyState(dev) ==
    /\ HasDevice(BACnetDeviceDict, dev)
    /\ \A n \in 1..Len(PeerObjectList(dev)) :
          LET object == PeerObjectList(dev)[n]
          IN InObjectFilter(object)
                => /\ object \in DOMAIN DeviceEntry(BACnetDeviceDict, dev).objects
                   /\ "presentValue"
                         \in DOMAIN DeviceEntry(BACnetDeviceDict, dev).objects[object]
                   /\ <<object, dev>> \in DOMAIN object_to_id

\* C17: when every request completes, and completes successfully, an announced
\* device eventually reaches the steady state
C17_SteadyStateReached ==
    \A dev \in Devices : HasDevice(BACnetDeviceDict, dev) ~> SteadyState(dev)

----------------------------------------------------------------------------
(* Reuse of reclaimed ids *)

\* the last step was an assign_id call for a key that held no id
AssignedFresh == last'.op = "assign_id" /\ last'.calls[1].fresh

----------------------------------------------------------------------------
(* Properties without a datatype *)

\* what a peer may report of one object: "proprietary" is a property bacpypes
\* knows no datatype of
PeerResultLists ==
    {<<[propertyIdentifier |-> "presentValue", propertyAccessError |-> FALSE,
        propertyValue |-> 1]>>,
     <<[propertyIdentifier |-> "proprietary", propertyAccessError |-> FALSE,
        propertyValue |-> 2],
       [propertyIdentifier |-> "presentValue", propertyAccessError |-> FALSE,
        propertyValue |-> 2]>>,
     <<[propertyIdentifier |-> "statusFlags", propertyAccessError |-> FALSE,
        propertyValue |-> 1],
       [propertyIdentifier |-> "proprietary", propertyAccessError |-> FALSE,
        propertyValue |-> 1],
       [propertyIdentifier |-> "presentValue", propertyAccessError |-> TRUE,
        propertyValue |-> 0]>>}

\* the notifications of peers that report a property without a datatype among
\* others
MixedValueLists ==
    {<<[propertyIdentifier |-> "presentValue", value |-> 1]>>,
     <<[propertyIdentifier |-> "presentValue", value |-> 2],
       [propertyIdentifier |-> "proprietary", value |-> 1],
       [propertyIdentifier |-> "statusFlags", value |-> 2]>>,
     <<[propertyIdentifier |-> "proprietary", value |-> 1],
       [propertyIdentifier |-> "statusFlags", value |-> 1]>>}

MixedNotifications ==
    [pduSource : {"A1"},
     monitoredObjectIdentifier : MergeObjects,
     initiatingDeviceIdentifier : Devices,
     listOfValues : MixedValueLists]

\* a ReadPropertyMultipleRequest for objects other than devices completes with
\* a ReadPropertyMultipleACK that reports listOfResults of every object asked for
ReadMultipleAnswered(request, listOfResults) ==
    /\ BagIn(request, pending)
    /\ request.service = "ReadPropertyMultipleRequest"
    /\ \A i \in 1..Len(request.objectList) : request.objectList[i][1] # "device"
    /\ LET response ==
               [pduSource |-> request.pduDestination,
                listOfReadAccessResults |->
                    [i \in 1..Len(request.objectList) |->
                        [objectIdentifier |-> request.objectList[i],
                         listOfResults |-> listOfResults]]]
       IN \E c \in on_ReadMultipleResult(Ctx, request, FALSE, TRUE, response) :
             Finish(c, pending (-) SetToBag({request}),
                    [NoCall EXCEPT !.op = "on_ReadMultipleResult", !.req = request,
                                   !.addr = request.pduDestination,
                                   !.response = response], 0)
    /\ UNCHANGED apiReads

\* reads and notifications of the objects of a device that announces itself
\* and of a device that never does
NextUnknown ==
    \/ IAm(D1, "A1")
    \/ \E addr \in Addresses :
          ApiReadPropertyMultiple(<<O1, O3>>, ReducedPropertyList, addr)
    \/ \E request \in {r \in BagToSet(pending) : IsReadMany(r) /\ SingleDevice(r)} :
          ReadMultipleSucceeds(request, 1, TRUE)
    \/ \E request \in BagToSet(pending), listOfResults \in PeerResultLists :
          ReadMultipleAnswered(request, listOfResults)
    \/ \E apdu \in MixedNotifications : ConfirmedCOVNotification(apdu)
    \/ \E apdu \in MixedNotifications : UnconfirmedCOVNotification(apdu)
    \/ \E request \in BagToSet(pending) : SubscribeSucceeds(request)
    \/ ObserverClears

SpecUnknown == Init /\ [][NextUnknown]_vars

\* the properties of a message that have a datatype
HasDatatype(objectID, propertyIdentifier) ==
    get_datatype(objectID[1], propertyIdentifier) # "None"

\* the value of every property of the notification that has a datatype, the
\* last one of a property, is in the registry under (monitored object,
\* initiating device)
KnownValuesMerged ==
    \A k \in 1..Len(last.listOfValues) :
        LET p == last.listOfValues[k].propertyIdentifier
        IN (/\ HasDatatype(last.obj, p)
            /\ \A n \in (k + 1)..Len(last.listOfValues) :
                  last.listOfValues[n].propertyIdentifier # p)
           => /\ last.obj \in DOMAIN DeviceEntry(BACnetDeviceDict, last.dev).objects
              /\ p \in DOMAIN DeviceEntry(BACnetDeviceDict, last.dev).objects[last.obj]
              /\ DeviceEntry(BACnetDeviceDict, last.dev).objects[last.obj][p]
                    = last.listOfValues[k].value

\* the value of every property of the read result that has a datatype and was
\* read without an access error is in the registry under (object, device of the
\* source address)
KnownResultsMerged ==
    \A i \in 1..Len(last.response.listOfReadAccessResults) :
        LET result == last.response.listOfReadAccessResults[i]
            oid == result.objectIdentifier
            dev == addr_to_dev_id(BACnetDeviceDict, last.response.pduSource)
        IN \A k \in 1..Len(result.listOfResults) :
              LET p == result.listOfResults[k].propertyIdentifier
              IN (/\ HasDatatype(oid, p)
                  /\ ~result.listOfResults[k].propertyAccessError)
                 => /\ oid \in DOMAIN DeviceEntry(BACnetDeviceDict, dev).objects
                    /\ p \in DOMAIN DeviceEntry(BACnetDeviceDict, dev).objects[oid]
                    /\ DeviceEntry(BACnetDeviceDict, dev).objects[oid][p]
                          = result.listOfResults[k].propertyValue

\* C21: a property without a datatype is skipped and never fatal: of a readMany
\* result and of a COV notification for a registered device every property that
\* has a datatype is merged into the registry, the handler ends without an
\* exception, and a confirmed notification is acknowledged
C21_UnknownSkipped ==
    /\ (/\ last.op = "on_ReadMultipleResult" /\ ~last.ioError
        /\ HasDevice(BACnetDeviceDict, addr_to_dev_id(BACnetDeviceDict, last.addr)))
          => ~last.raised /\ KnownResultsMerged
    /\ (IsNotification /\ HasDevice(BACnetDeviceDict, last.dev))
          => /\ ~last.raised
             /\ KnownValuesMerged
             /\ last.op = "do_ConfirmedCOVNotificationRequest"
                   => /\ Len(last.sent) = 1
                      /\ last.sent[1].service = "SimpleAckPDU"

\* the readMany half of C21 alone
ReadManySkipsUnknown ==
    (/\ last.op = "on_ReadMultipleResult" /\ ~last.ioError
     /\ HasDevice(BACnetDeviceDict, addr_to_dev_id(BACnetDeviceDict, last.addr)))
       => ~last.raised /\ KnownResultsMerged

\* a read result with a property without a datatype was merged
ReadManySkipsUnknown_Witness ==
    /\ last.op = "on_ReadMultipleResult" /\ ~last.ioError
    /\ HasDevice(BACnetDeviceDict, D1)
    /\ \E k \in 1..Len(last.response.listOfReadAccessResults[1].listOfResults) :
          last.response.listOfReadAccessResults[1].listOfResults[k].propertyIdentifier
             = "proprietary"
    /\ O1 \in DOMAIN DeviceEntry(BACnetDeviceDict, D1).objects

----------------------------------------------------------------------------
(* The property list of the follow-up read *)

\* the properties read once per object
OBJECT_PROPERTIES_TO_READ_ONCE ==
    <<"objectIdentifier", "objectType", "objectName", "description", "presentValue",
      "statusFlags", "outOfService", "units", "eventState", "reliability",
      "covIncrement", "stateText", "numberOfStates", "notificationClass",
      "minPresValue", "maxPresValue", "activeText", "inactiveText", "polarity",
      "relinquishDefault", "resolution">>

\* the readMany requests a successful readMany completion has issued: the
\* follow-up reads of a device's objects
FollowUps ==
    IF last.op = "on_ReadMultipleResult" /\ ~last.ioError
    THEN SelectSeq(last.sent, IsReadMany)
    ELSE <<>>

\* C22: the follow-up readMany issued after a device's properties are first
\* loaded requests the once-only property set for each contained object, and no
\* other property list
C22_FollowUpOnceOnly ==
    \A j \in 1..Len(FollowUps) :
        FollowUps[j].propertyList = OBJECT_PROPERTIES_TO_READ_ONCE

----------------------------------------------------------------------------
(* The decode step *)

\* the datatypes get_datatype returns: atomic classes and ArrayOf classes, or
\* nothing for a property the object type does not define
Real == [array |-> FALSE, name |-> "Real"]
Unsigned == [array |-> FALSE, name |-> "Unsigned"]
CharacterString == [array |-> FALSE, name |-> "CharacterString"]
ArrayOfCharacterString ==
    [array |-> TRUE, name |-> "ArrayOfCharacterString", subtype |-> CharacterString]
ArrayOfUnsigned == [array |-> TRUE, name |-> "ArrayOfUnsigned", subtype |-> Unsigned]
NoDatatype == [array |-> FALSE, name |-> "None"]

Datatypes == {Real, Unsigned, ArrayOfCharacterString, ArrayOfUnsigned, NoDatatype}

\* propertyArrayIndex: absent, or an index
NoIndex == -1
ArrayIndexes == {NoIndex, 0, 1, 2}

\* an Any holds the tags the peer encoded: the application tag of an atomic
\* value names its type
TagData == {0, 1, 2}
Tags == [data : TagData, tagNumber : {"Real", "Unsigned", "CharacterString"}]
Anys == [tagList : {<<>>} \cup {<<t>> : t \in Tags}
                         \cup {<<t, u>> : t \in {x \in Tags : x.data # 0},
                                          u \in {x \in Tags : x.data # 0}}]

\* Any.cast_out(klass): an atomic class decodes exactly one tag of its own
\* type, an ArrayOf class decodes every tag as its element type; anything else
\* raises. [raised, klass, value]: value holds the data decoded
cast_out(any, klass) ==
    IF klass.array
    THEN IF \A i \in 1..Len(any.tagList) : any.tagList[i].tagNumber = klass.subtype.name
         THEN [klass |-> klass.name, raised |-> FALSE,
               value |-> [i \in 1..Len(any.tagList) |-> any.tagList[i].data]]
         ELSE [klass |-> klass.name, raised |-> TRUE, value |-> <<>>]
    ELSE IF Len(any.tagList) = 1 /\ any.tagList[1].tagNumber = klass.name
         THEN [klass |-> klass.name, raised |-> FALSE, value |-> <<any.tagList[1].data>>]
         ELSE [klass |-> klass.name, raised |-> TRUE, value |-> <<>>]

Skipped == [klass |-> "skipped", raised |-> FALSE, value |-> <<>>]
Raised == [klass |-> "None", raised |-> TRUE, value |-> <<>>]

\* return_value_read_multiple with index 0 decoded as the element type
read_multiple_value_element_count(datatype, properties) ==
    IF datatype = NoDatatype
    THEN Skipped
    ELSE IF properties.propertyAccessError
         THEN Skipped
         ELSE IF datatype.array /\ properties.propertyArrayIndex # NoIndex
              THEN cast_out(properties.propertyValue, datatype.subtype)
              ELSE cast_out(properties.propertyValue, datatype)

\* return_value_read_multiple, the value of one property: a property without a
\* datatype or with an access error gets no entry
read_multiple_value(datatype, properties) ==
    IF datatype = NoDatatype
    THEN Skipped
    ELSE IF properties.propertyAccessError
         THEN Skipped
         ELSE IF datatype.array /\ properties.propertyArrayIndex # NoIndex
              THEN IF properties.propertyArrayIndex = 0
                   THEN cast_out(properties.propertyValue, Unsigned)
                   ELSE cast_out(properties.propertyValue, datatype.subtype)
              ELSE cast_out(properties.propertyValue, datatype)

\* return_value_read: raises for a property without a datatype
read_value(datatype, response) ==
    IF datatype = NoDatatype
    THEN Raised
    ELSE IF datatype.array /\ response.propertyArrayIndex # NoIndex
         THEN IF response.propertyArrayIndex = 0
              THEN cast_out(response.propertyValue, Unsigned)
              ELSE cast_out(response.propertyValue, datatype.subtype)
         ELSE cast_out(response.propertyValue, datatype)

\* the COV notification handlers, the value of one listvalue: issubclass(None,
\* Array) raises for a property without a datatype
cov_value(datatype, listvalue) ==
    IF datatype = NoDatatype
    THEN Raised
    ELSE IF datatype.array /\ listvalue.propertyArrayIndex # NoIndex
         THEN IF listvalue.propertyArrayIndex = 0
              THEN cast_out(listvalue.value, Unsigned)
              ELSE cast_out(listvalue.value, datatype.subtype)
         ELSE cast_out(listvalue.value, datatype)

\* a property value a peer has sent, not yet decoded
Received ==
    [op : {"received"}, datatype : Datatypes, propertyArrayIndex : ArrayIndexes,
     propertyValue : Anys, propertyAccessError : BOOLEAN, out : {Skipped}]

InitDecode ==
    /\ BACnetDeviceDict = <<>>
    /\ id_to_object = EmptyDict
    /\ object_to_id = EmptyDict
    /\ available_ids = {}
    /\ next_id = 1
    /\ updateEvent = FALSE
    /\ pending = EmptyBag
    /\ last \in Received
    /\ freed = [id |-> 0, then |-> 0]
    /\ apiReads = 0
    /\ merging = NoMerge
    /\ observer = [pc |-> "wait", seen |-> <<>>]

Decoded(op, out) ==
    /\ last.op = "received"
    /\ last' = [last EXCEPT !.op = op, !.out = out]
    /\ UNCHANGED <<BACnetDeviceDict, id_to_object, object_to_id, available_ids, next_id,
                   updateEvent, pending, freed, apiReads, merging, observer>>

DecodeReadMultiple ==
    Decoded("return_value_read_multiple", read_multiple_value(last.datatype, last))

DecodeRead ==
    /\ ~last.propertyAccessError
    /\ Decoded("return_value_read", read_value(last.datatype, last))

DecodeNotification ==
    /\ ~last.propertyAccessError
    /\ Decoded("property_dict",
               cov_value(last.datatype,
                         [propertyArrayIndex |-> last.propertyArrayIndex,
                          value |-> last.propertyValue]))

\* the decode step of the three handlers applied to what peers may send
NextDecode ==
    \/ DecodeReadMultiple
    \/ DecodeRead
    \/ DecodeNotification

SpecDecode == InitDecode /\ [][NextDecode]_vars

\* the last step decoded a property that has a datatype and no access error
DecodedNow ==
    /\ last.op \in {"return_value_read_multiple", "return_value_read", "property_dict"}
    /\ last.datatype # NoDatatype
    /\ ~last.propertyAccessError

\* the class the rule decodes as
RuleClass(datatype, index) ==
    IF datatype.array /\ index # NoIndex
    THEN IF index = 0 THEN Unsigned ELSE datatype.subtype
    ELSE datatype

\* what a peer encodes for a property whose value is content: the length of an
\* array at index 0, one element at another index, else the whole value
ArrayContents == {<<>>, <<1>>, <<2, 1>>}

PeerEncodes(datatype, index, content) ==
    IF datatype.array
    THEN IF index = NoIndex
         THEN [tagList |-> [i \in 1..Len(content) |->
                               [data |-> content[i], tagNumber |-> datatype.subtype.name]]]
         ELSE IF index = 0
              THEN [tagList |-> <<[data |-> Len(content), tagNumber |-> "Unsigned"]>>]
              ELSE IF index <= Len(content)
                   THEN [tagList |-> <<[data |-> content[index],
                                        tagNumber |-> datatype.subtype.name]>>]
                   ELSE [tagList |-> <<>>]
    ELSE IF content = <<>>
         THEN [tagList |-> <<>>]
         ELSE [tagList |-> <<[data |-> content[1], tagNumber |-> datatype.name]>>]

\* C23: in the readMany, readOne and notification handlers alike, the decode of
\* a property with a datatype is the cast to the class chosen from (datatype is
\* array-typed, array index) alone: Unsigned for an array at index 0 whatever
\* the element type, the element type at another index, else the datatype; the
\* length a peer reports at index 0 comes out as an unsigned count
C23_DecodeRule ==
    DecodedNow
        => /\ last.out = cast_out(last.propertyValue,
                                  RuleClass(last.datatype, last.propertyArrayIndex))
           /\ (last.datatype.array /\ last.propertyArrayIndex = 0)
                 => /\ last.out.klass = "Unsigned"
                    /\ \A content \in ArrayContents :
                          last.propertyValue = PeerEncodes(last.datatype, 0, content)
                             => ~last.out.raised /\ last.out.value = <<Len(content)>>

\* a notification reported the length of an array of character strings at
\* index 0 and it was decoded as the count 2
C23_Witness ==
    /\ last.op = "property_dict"
    /\ last.datatype = ArrayOfCharacterString
    /\ last.propertyArrayIndex = 0
    /\ last.out = [klass |-> "Unsigned", raised |-> FALSE, value |-> <<2>>]

----------------------------------------------------------------------------
(* The allocator's tables *)

\* the ids that keys hold, and the ids that id_to_object knows
LiveIds == {object_to_id[k] : k \in DOMAIN object_to_id}

\* id_to_object and object_to_id are inverse maps of each other
TablesInverse ==
    /\ \A k \in DOMAIN object_to_id :
          /\ object_to_id[k] \in DOMAIN id_to_object
          /\ id_to_object[object_to_id[k]] = k
    /\ \A n \in DOMAIN id_to_object :
          /\ id_to_object[n] \in DOMAIN object_to_id
          /\ object_to_id[id_to_object[n]] = n

\* C24: in every state reached by assign_id / unassign_id calls id_to_object
\* and object_to_id are inverse maps, no pooled id is live, the live and the
\* pooled ids together are exactly 1 .. next_id - 1, and next_id never decreases
C24_TablesConsistent ==
    /\ [](/\ TablesInverse
          /\ available_ids \cap LiveIds = {}
          /\ available_ids \cap DOMAIN id_to_object = {}
          /\ LiveIds \cup available_ids = 1..(next_id - 1))
    /\ [][next_id' >= next_id]_vars

\* two keys hold ids, one id is pooled, and the last call gave a key the id
\* that another key had held
C24_Witness ==
    /\ last.op = "assign_id"
    /\ Len(last.calls) = 1 /\ last.calls[1].fresh
    /\ last.calls[1].id < next_id - 1
    /\ Cardinality(LiveIds) = 2
    /\ Cardinality(available_ids) = 1

----------------------------------------------------------------------------
(* Subscribes issued by read completions *)

\* a caller's read of an object, the discovery of its device, and every
\* completion of the reads and subscribes these cause
NextWorkflow ==
    \/ IAm(D1, "A1")
    \/ ApiReadPropertyMultiple(<<O1>>, ReducedPropertyList, "A1")
    \/ \E request \in BagToSet(pending), value \in Values :
          ReadMultipleSucceeds(request, value, TRUE)
    \/ \E request \in BagToSet(pending) : SubscribeSucceeds(request)
    \/ \E request \in BagToSet(pending) : SubscribeFails(request)

SpecWorkflow == Init /\ [][NextWorkflow]_vars

\* the (object, device) an outstanding subscribe is for, as on_Subscribed
\* resolves it
SubscribeTarget(request) ==
    <<request.monitoredObjectIdentifier,
      addr_to_dev_id(BACnetDeviceDict, request.pduDestination)>>

\* the subscribes for target that are outstanding
Outstanding(target) ==
    LET subs == {r \in BagToSet(pending) : IsSubscribe(r) /\ SubscribeTarget(r) = target}
    IN BagCardinality([r \in subs |-> pending[r]])

\* C25: no two subscribe requests are outstanding for the same (object,
\* device): while a subscribe for (O, D) is outstanding the successful reads of
\* O issue no second one, and a read completion issues a subscribe for O only
\* when (O, D) holds no id
C25_OneSubscribeOutstanding ==
    /\ [](\A r \in BagToSet(pending) : IsSubscribe(r) => Outstanding(SubscribeTarget(r)) = 1)
    /\ [][(last'.op = "on_ReadMultipleResult" /\ ~last'.ioError)
           => \A j \in 1..Len(last'.sent) :
                 IsSubscribe(last'.sent[j])
                    => <<last'.sent[j].monitoredObjectIdentifier,
                         addr_to_dev_id(BACnetDeviceDict, last'.sent[j].pduDestination)>>
                          \notin DOMAIN object_to_id]_vars

----------------------------------------------------------------------------
(* Subscriber process ids *)

\* the (object, destination address) a subscribe request is for
SubscribePair(request) == <<request.monitoredObjectIdentifier, request.pduDestination>>

\* C26: a COVSubscribe call never sends the subscriber process id that an
\* outstanding subscribe for another (object, destination address) carries
\* while that id is live, whether or not the addresses resolve to a registered
\* device
C26_DistinctProcessIds ==
    [][last'.op = "COVSubscribe"
        => \A j \in 1..Len(last'.sent) :
              IsSubscribe(last'.sent[j])
                 => \A r \in BagToSet(pending) :
                       (/\ IsSubscribe(r)
                        /\ r.subscriberProcessIdentifier \in DOMAIN id_to_object
                        /\ SubscribePair(r) # SubscribePair(last'.sent[j]))
                          => r.subscriberProcessIdentifier
                                # last'.sent[j].subscriberProcessIdentifier]_vars

----------------------------------------------------------------------------
(* The change signal and its observer *)

\* update_object up to "self.updateEvent.set()": the signal is set for a
\* registered device before the registry is written; the loop finds nothing
\* for any other device
UpdateObjectSets(objectID, deviceID, new_val) ==
    /\ ~merging.active
    /\ IF HasDevice(BACnetDeviceDict, deviceID)
       THEN /\ updateEvent' = TRUE
            /\ merging' = [active |-> TRUE, deviceID |-> deviceID, new_val |-> new_val,
                           objectID |-> objectID]
       ELSE UNCHANGED <<updateEvent, merging>>
    /\ last' = [NoCall EXCEPT !.op = "update_object", !.obj = objectID, !.dev = deviceID,
                              !.val = new_val]
    /\ UNCHANGED <<BACnetDeviceDict, id_to_object, object_to_id, available_ids, next_id,
                   pending, freed, apiReads, observer>>

\* update_object from the try statement on: the registry is written
UpdateObjectWrites ==
    /\ merging.active
    /\ BACnetDeviceDict' =
           update_object(Ctx, merging.objectID, merging.deviceID, merging.new_val).reg
    /\ merging' = [merging EXCEPT !.active = FALSE]
    /\ UNCHANGED <<id_to_object, object_to_id, available_ids, next_id, updateEvent,
                   pending, last, freed, apiReads, observer>>

\* the observer's wait returns: the signal is set
ObserverWakes ==
    /\ observer.pc = "wait"
    /\ updateEvent
    /\ observer' = [observer EXCEPT !.pc = "clear"]
    /\ UNCHANGED <<BACnetDeviceDict, id_to_object, object_to_id, available_ids, next_id,
                   updateEvent, pending, last, freed, apiReads, merging>>

\* the observer clears the signal it waited on
ObserverResets ==
    /\ observer.pc = "clear"
    /\ updateEvent' = FALSE
    /\ observer' = [observer EXCEPT !.pc = "read"]
    /\ UNCHANGED <<BACnetDeviceDict, id_to_object, object_to_id, available_ids, next_id,
                   pending, last, freed, apiReads, merging>>

\* the observer reads the registry and waits again
ObserverReads ==
    /\ observer.pc = "read"
    /\ observer' = [pc |-> "wait", seen |-> BACnetDeviceDict]
    /\ UNCHANGED <<BACnetDeviceDict, id_to_object, object_to_id, available_ids, next_id,
                   updateEvent, pending, last, freed, apiReads, merging>>

\* the owner thread's announcements and merges interleaved with the observer's
\* thread
NextObserver ==
    \/ ~merging.active /\ IAm(D1, "A1")
    \/ \E objectID \in MergeObjects, deviceID \in Devices, new_val \in PropertyMaps :
          UpdateObjectSets(objectID, deviceID, new_val)
    \/ UpdateObjectWrites
    \/ ObserverWakes
    \/ ObserverResets
    \/ ObserverReads

SpecObserver == Init /\ [][NextObserver]_vars

\* the property values a registry holds: (device, object, property, value)
Properties(reg) ==
    UNION {UNION {{<<reg[i].key, o, p, reg[i].objects[o][p]>> :
                      p \in DOMAIN reg[i].objects[o]} :
                  o \in DOMAIN reg[i].objects} :
           i \in 1..Len(reg)}

\* the values of the merge that last set the signal are in the registry
MergeWritten ==
    \A p \in DOMAIN merging.new_val :
        <<merging.deviceID, merging.objectID, p, merging.new_val[p]>>
            \in Properties(BACnetDeviceDict)

\* C27: whenever the change signal is set, the property values of the merge
\* that set it are in the registry, and no merge goes unobserved: an observer
\* that has waited, cleared and read, and waits again with the signal clear and
\* no merge under way, has read every property value the registry holds
C27_ObserverSeesMerge ==
    /\ (updateEvent /\ merging # NoMerge) => MergeWritten
    /\ (observer.pc = "wait" /\ ~updateEvent /\ ~merging.active)
          => Properties(observer.seen) = Properties(BACnetDeviceDict)

----------------------------------------------------------------------------
(* Merges for a device the registry does not hold *)

\* the step was a COV notification whose initiating device is not registered,
\* or a successful read result whose source address is that of no registered
\* device
MergeForUnknownDevice ==
    \/ /\ last'.op \in {"do_ConfirmedCOVNotificationRequest",
                        "do_UnconfirmedCOVNotificationRequest"}
       /\ ~HasDevice(BACnetDeviceDict, last'.dev)
    \/ /\ last'.op = "on_ReadMultipleResult" /\ ~last'.ioError
       /\ addr_to_dev_id(BACnetDeviceDict, last'.response.pduSource) = None

\* C28: a merge aimed at a device that is not in the registry changes nothing:
\* the registry, with its devices, objects and property values, is as it was,
\* and the change signal is not set
C28_UnknownDeviceNoMerge ==
    [][MergeForUnknownDevice
        => /\ BACnetDeviceDict' = BACnetDeviceDict
           /\ updateEvent' = updateEvent]_vars

\* a confirmed notification of a device that never announced itself was
\* decoded and acknowledged while the registry held properties of another
\* device, and the signal is clear
C28_Witness ==
    /\ last.op = "do_ConfirmedCOVNotificationRequest"
    /\ ~HasDevice(BACnetDeviceDict, last.dev)
    /\ ~last.raised /\ Len(last.sent) = 1
    /\ HasDevice(BACnetDeviceDict, D1)
    /\ O1 \in DOMAIN DeviceEntry(BACnetDeviceDict, D1).objects
    /\ ~updateEvent

====
